---- MODULE Spec2Model ----
(***************************************************************************)
(* Block device manager and data tier of the stratisd storage engine.     *)
(*                                                                         *)
(*   src/src/engine/strat_engine/blockdevmgr.rs         BlockDevMgr,       *)
(*                                                      initialize         *)
(*   src/src/engine/strat_engine/backstore/data_tier.rs DataTier           *)
(*                                                                         *)
(* Sizes are counted in allocation units of 512 MiB, so that the minimum  *)
(* device size of 1 GiB is 2 units.  The collaborators that are not part  *)
(* of the two files (BDA, BlockDev, RangeAllocator, coalesce_blkdevsegs)  *)
(* are modelled from their contracts in the specification.                *)
(***************************************************************************)
EXTENDS Integers, Sequences, FiniteSets, TLC

\* ------------------------------------------------------------------ bounds
MaxPaths   == 2      \* longest path list handed to initialize / add
MaxUuid    == 2      \* device UUIDs drawn by Uuid::new_v4() in one behaviour
MaxRequest == 3      \* largest allocation request
MaxTime    == 1      \* largest timestamp handed to save_state
MaxSector  == 3      \* sectors of a device in the inputs of coalesce_blkdevsegs
MaxSegs    == 3      \* segments in the two inputs of coalesce_blkdevsegs together

\* --------------------------------------------------------- program constants
MIN_DEV_SIZE    == 2     \* Bytes(IEC::Gi), in units of 512 MiB
MIN_MDA_SECTORS == 1     \* smallest admissible metadata area, in units

\* ------------------------------------------------------------- environment
Devs  == {1, 2, 3, 4}                 \* physical device identities
\* pool UUIDs: every call on the manager is made for its own pool, as the
\* pool that owns the manager makes them; OtherPool is another pool of this
\* engine, which owns device 3 in some initial states
Pools     == {"p1"}
OtherPool == "p2"

\* blkdev_size of each physical device; device 4 is below MIN_DEV_SIZE
DevSize(d) == CASE d = 1 -> 3 [] d = 2 -> 2 [] d = 3 -> 2 [] OTHER -> 1

NoDevice == 0

\* paths: path d is the device node of device d, LinkPath a second name of
\* device 1, BadPath a path that names no device
LinkPath == 11
BadPath  == 12

\* Device::from_str: the device a path names, NoDevice when it names none
from_str(path) ==
  IF path = BadPath THEN NoDevice ELSE IF path = LinkPath THEN 1 ELSE path

MdaSizes     == {0, MIN_MDA_SECTORS}   \* one rejected, one accepted mda_size
MetadataLens == {1, 2}                 \* payload sizes for save_state

\* ------------------------------------------------------------------ helpers
Range(s) == {s[i] : i \in DOMAIN s}

RECURSIVE SumLen(_)
SumLen(segs) ==
  IF segs = <<>> THEN 0 ELSE Head(segs).length + SumLen(Tail(segs))

\* every order in which a HashSet<Device> may be iterated
Orders(S) ==
  {o \in [1..Cardinality(S) -> S] : \A d \in S : \E i \in DOMAIN o : o[i] = d}

\* a set as a sequence, ascending
RECURSIVE SetToSeq(_)
SetToSeq(S) ==
  IF S = {} THEN <<>>
  ELSE LET x == CHOOSE y \in S : \A z \in S : y <= z
       IN  <<x>> \o SetToSeq(S \ {x})

\* on-disk static header of a device
Unowned        == [own |-> "Unowned", pool |-> "", uuid |-> 0]
Theirs         == [own |-> "Theirs",  pool |-> "", uuid |-> 0]
Ours(pool, u)  == [own |-> "Ours",    pool |-> pool, uuid |-> u]

VARIABLES
  disk,        \* [Devs -> header]   what determine_ownership reads on each device
  phase,       \* "none" | "mgr" | "tier" | "destroyed" | "panicked"
  block_devs,  \* BlockDevMgr.block_devs : Seq of BlockDev
  segments,    \* DataTier.segments      : Seq of BlkDevSegment
  next_uuid,   \* number of device UUIDs drawn so far
  origin,      \* how the tier was made: "new", "setup" from extents that are
               \* allocated in its manager, "setup_other" from other triples
  last         \* the last call and what it returned

vars == <<disk, phase, block_devs, segments, next_uuid, origin, last>>

\* ----------------------------------------------------------- resolve_devices
\* a resolution that passes over the paths that name no device
resolve_devices_lenient(paths) ==
  [ok |-> TRUE,
   devices |-> {from_str(paths[i]) : i \in DOMAIN paths} \ {NoDevice}]

resolve_devices(paths) ==
  IF \E i \in DOMAIN paths : from_str(paths[i]) = NoDevice
    THEN [ok |-> FALSE, devices |-> {}]
    ELSE [ok |-> TRUE,  devices |-> {from_str(paths[i]) : i \in DOMAIN paths}]

\* validate_mda_size
validate_mda_size(mda_size) == mda_size >= MIN_MDA_SECTORS

\* dev_info: size and ownership of a device, or the error of reading them
dev_info(dev, dsk, io) ==
  IF dev = io.info
    THEN [err |-> "IO"]
    ELSE [err |-> "Ok", dev_size |-> DevSize(dev), ownership |-> dsk[dev]]

\* --------------------------------------------------------------- filter_devs
\* the result names the place where the filter returned: "info" the error of
\* dev_info, "small", "theirs", "foreign" the three rejections, "done"
Rejected(err, stage) == [err |-> err, stage |-> stage, add_devs |-> <<>>]

RECURSIVE filter_from(_, _, _, _, _, _, _)
filter_from(order, i, add_devs, pool_uuid, force, dsk, io) ==
  IF i > Len(order) THEN [err |-> "Ok", stage |-> "done", add_devs |-> add_devs]
  ELSE
    LET dev  == order[i]
        info == dev_info(dev, dsk, io)
    IN  IF info.err # "Ok" THEN Rejected(info.err, "info")
        ELSE IF info.dev_size < MIN_DEV_SIZE THEN Rejected("Invalid", "small")
        ELSE IF info.ownership.own = "Unowned"
          THEN filter_from(order, i + 1, Append(add_devs, dev), pool_uuid, force, dsk, io)
        ELSE IF info.ownership.own = "Theirs"
          THEN IF ~force
                 THEN Rejected("Invalid", "theirs")
                 ELSE filter_from(order, i + 1, Append(add_devs, dev), pool_uuid, force, dsk, io)
        ELSE IF info.ownership.pool # pool_uuid
          THEN Rejected("Invalid", "foreign")
          ELSE filter_from(order, i + 1, add_devs, pool_uuid, force, dsk, io)

\* a filter that takes every header of this engine for one of this pool
filter_devs_anypool(order, pool_uuid, force, dsk, io) ==
  filter_from(order, 1, <<>>, pool_uuid, force,
              [d \in Devs |-> IF dsk[d].own = "Ours"
                                THEN Ours(pool_uuid, dsk[d].uuid) ELSE dsk[d]],
              io)

\* a filter that admits the devices already of this pool along with the new
filter_devs_readmit(order, pool_uuid, force, dsk, io) ==
  LET f == filter_from(order, 1, <<>>, pool_uuid, force, dsk, io)
  IN  IF f.err = "Ok" THEN [f EXCEPT !.add_devs = order] ELSE f

\* a filter that admits the devices of other applications without force
filter_devs_forced(order, pool_uuid, force, dsk, io) ==
  filter_from(order, 1, <<>>, pool_uuid, TRUE, dsk, io)

filter_devs(order, pool_uuid, force, dsk, io) ==
  filter_from(order, 1, <<>>, pool_uuid, force, dsk, io)

\* --------------------------------------------------- BDA (metadata header)
\* BDA::initialize on a device: the header it leaves on success, and on a
\* failed write (torn: the header had reached the disk before the failure)
BDA_initialize(dsk, dev, pool_uuid, dev_uuid, ok, torn) ==
  IF ok \/ torn THEN [dsk EXCEPT ![dev] = Ours(pool_uuid, dev_uuid)] ELSE dsk

\* BDA::wipe attempted on every device of targets; it fails on those of io_wipe
BDA_wipe(dsk, targets, io_wipe) ==
  [d \in Devs |-> IF d \in targets /\ d \notin io_wipe THEN Unowned ELSE dsk[d]]

\* a BlockDev whose allocator has no sector reserved for the metadata
BlockDev_new_unreserved(dev, dev_uuid, mda_size) ==
  [device |-> dev, uuid |-> dev_uuid, size |-> DevSize(dev), mda |-> mda_size,
   used |-> {}, time |-> 0]

\* a BlockDev whose allocator spans the device less its metadata area
BlockDev_new_usable(dev, dev_uuid, mda_size) ==
  [device |-> dev, uuid |-> dev_uuid, size |-> DevSize(dev) - mda_size,
   mda |-> mda_size, used |-> 0..(mda_size - 1), time |-> 0]

\* BlockDev::new with RangeAllocator::new(dev_size, [(0, bda.size())])
BlockDev_new(dev, dev_uuid, mda_size) ==
  [device |-> dev, uuid |-> dev_uuid, size |-> DevSize(dev), mda |-> mda_size,
   used |-> 0..(mda_size - 1), time |-> 0]

\* ---------------------------------------------------- initialize, write phase
\* a cleanup that forgets the devices written earlier in the batch
wipe_targets_failing_only(dev, bds) == {dev}

\* the devices on which a wipe is attempted when BDA::initialize failed on
\* dev: dev itself and the devices of bds, written earlier in the batch
wipe_targets(dev, bds) == {dev} \cup {bds[j].device : j \in DOMAIN bds}

RECURSIVE write_from(_, _, _, _, _, _, _, _)
write_from(add_devs, i, bds, dsk, uuid, pool_uuid, mda_size, io) ==
  IF i > Len(add_devs)
    THEN [err |-> "Ok", stage |-> "done", bds |-> bds, disk |-> dsk,
          next_uuid |-> uuid, written |-> Range(add_devs), wiped |-> {},
          unerased |-> {}]
  ELSE
    LET dev      == add_devs[i]
        dev_uuid == uuid + 1
    IN  IF dev = io.write
          THEN LET torn    == BDA_initialize(dsk, dev, pool_uuid, dev_uuid, FALSE, io.torn)
                   targets == wipe_targets(dev, bds)
               IN  [err |-> "Error", stage |-> "write", bds |-> <<>>,
                    disk |-> BDA_wipe(torn, targets, io.wipe),
                    next_uuid |-> dev_uuid,
                    written |-> {add_devs[j] : j \in 1..i},
                    wiped |-> targets,
                    unerased |-> targets \cap io.wipe]
          ELSE write_from(add_devs, i + 1,
                          Append(bds, BlockDev_new(dev, dev_uuid, mda_size)),
                          BDA_initialize(dsk, dev, pool_uuid, dev_uuid, TRUE, FALSE),
                          dev_uuid, pool_uuid, mda_size, io)

Untouched(err, stage, dsk, uuid) ==
  [err |-> err, stage |-> stage, bds |-> <<>>, disk |-> dsk, next_uuid |-> uuid,
   written |-> {}, wiped |-> {}, unerased |-> {}]

\* an initialize that writes each device as the filter admits it: when a
\* later candidate is rejected, the admissible candidates hold new metadata
initialize_eager(pool_uuid, order, mda_size, force, dsk, uuid, io) ==
  IF ~validate_mda_size(mda_size) THEN Untouched("Invalid", "mda", dsk, uuid)
  ELSE LET f == filter_devs(order, pool_uuid, force, dsk, io)
       IN  IF f.err # "Ok"
             THEN [Untouched(f.err, f.stage, dsk, uuid) EXCEPT
                     !.disk = [d \in Devs |->
                                 IF d \in Range(order) /\ dsk[d] = Unowned
                                      /\ DevSize(d) >= MIN_DEV_SIZE
                                   THEN Ours(pool_uuid, uuid + 1) ELSE dsk[d]]]
             ELSE write_from(f.add_devs, 1, <<>>, dsk, uuid, pool_uuid, mda_size, io)

\* initialize(pool_uuid, devices, mda_size, force); order is the order in
\* which the HashSet of devices is iterated.  stage names the place where
\* the call returned: "mda", a stage of filter_devs, "write" or "done".
initialize(pool_uuid, order, mda_size, force, dsk, uuid, io) ==
  IF ~validate_mda_size(mda_size) THEN Untouched("Invalid", "mda", dsk, uuid)
  ELSE LET f == filter_devs(order, pool_uuid, force, dsk, io)
       IN  IF f.err # "Ok" THEN Untouched(f.err, f.stage, dsk, uuid)
           ELSE write_from(f.add_devs, 1, <<>>, dsk, uuid, pool_uuid, mda_size, io)

\* the outcomes of device I/O during one call of initialize.  The gather and
\* the write loops return at the first failure, so one failing device per
\* loop describes every outcome: info is the device whose dev_info fails,
\* write the device whose BDA::initialize fails, wipe the devices whose
\* wipe fails (NoDevice: none fails).
NoFault == [info |-> NoDevice, write |-> NoDevice, wipe |-> {}, torn |-> FALSE]

\* ------------------------------------------------ BlockDev / RangeAllocator
\* BlockDev::available: the free length of the device's allocator
available(bd) == bd.size - Cardinality(bd.used)

\* the maximal runs of consecutive sectors of S, ascending, as (start, length)
RECURSIVE Runs(_)
Runs(S) ==
  IF S = {} THEN <<>>
  ELSE LET lo == CHOOSE x \in S : \A y \in S : x <= y
           hi == CHOOSE x \in S : /\ \A y \in lo..x : y \in S
                                  /\ (x + 1) \notin S
       IN  <<[start |-> lo, length |-> hi - lo + 1]>> \o Runs(S \ (lo..hi))

\* the n lowest elements of S
RECURSIVE Lowest(_, _)
Lowest(S, n) ==
  IF n = 0 \/ S = {} THEN {}
  ELSE LET lo == CHOOSE x \in S : \A y \in S : x <= y
       IN  {lo} \cup Lowest(S \ {lo}, n - 1)

\* BlockDev::request_space: first fit over the free extents of the device;
\* grants min(needed, available)
request_space(bd, needed) ==
  LET free  == (0..(bd.size - 1)) \ bd.used
      taken == Lowest(free, needed)
      runs  == Runs(taken)
  IN  [gotten |-> Cardinality(taken),
       bd     |-> [bd EXCEPT !.used = bd.used \cup taken],
       segs   |-> [j \in DOMAIN runs |->
                     [uuid |-> bd.uuid, device |-> bd.device,
                      start |-> runs[j].start, length |-> runs[j].length]]]

\* ------------------------------------------------------------- BlockDevMgr
\* the space of the devices that is not reserved for metadata
RECURSIVE usable_from(_, _)
usable_from(bds, i) ==
  IF i > Len(bds) THEN 0
  ELSE (bds[i].size - bds[i].mda) + usable_from(bds, i + 1)

\* BlockDevMgr::current_capacity: the total size of the devices
RECURSIVE current_capacity_from(_, _)
current_capacity_from(bds, i) ==
  IF i > Len(bds) THEN 0 ELSE bds[i].size + current_capacity_from(bds, i + 1)

current_capacity(bds) == current_capacity_from(bds, 1)

\* the sizes of a set of devices, summed
RECURSIVE TotalSize(_)
TotalSize(S) ==
  IF S = {} THEN 0
  ELSE LET d == CHOOSE x \in S : TRUE IN DevSize(d) + TotalSize(S \ {d})

RECURSIVE avail_from(_, _)
avail_from(bds, i) ==
  IF i > Len(bds) THEN 0 ELSE available(bds[i]) + avail_from(bds, i + 1)

\* BlockDevMgr::avail_space
avail_space(bds) == avail_from(bds, 1)

\* a device loop that does not keep what the allocators gave out
RECURSIVE alloc_loop_untracked(_, _, _, _)
alloc_loop_untracked(bds, i, needed, segs) ==
  IF i > Len(bds) \/ needed = 0
    THEN [bds |-> bds, needed |-> needed, segs |-> segs]
    ELSE LET r == request_space(bds[i], needed)
         IN  alloc_loop_untracked(bds, i + 1, needed - r.gotten, segs \o r.segs)

\* a device loop that walks the devices from the last to the first
RECURSIVE alloc_loop_backwards(_, _, _, _)
alloc_loop_backwards(bds, i, needed, segs) ==
  IF i > Len(bds) \/ needed = 0
    THEN [bds |-> bds, needed |-> needed, segs |-> segs]
    ELSE LET k == Len(bds) + 1 - i
             r == request_space(bds[k], needed)
         IN  alloc_loop_backwards([bds EXCEPT ![k] = r.bd], i + 1,
                                  needed - r.gotten, segs \o r.segs)

\* the device loop of alloc_space
RECURSIVE alloc_loop(_, _, _, _)
alloc_loop(bds, i, needed, segs) ==
  IF i > Len(bds) \/ needed = 0
    THEN [bds |-> bds, needed |-> needed, segs |-> segs]
    ELSE LET r == request_space(bds[i], needed)
         IN  alloc_loop([bds EXCEPT ![i] = r.bd], i + 1,
                        needed - r.gotten, segs \o r.segs)

\* an alloc_space whose space check refuses a request for all that is free
alloc_space_le(bds, size) ==
  IF avail_space(bds) <= size
    THEN [ret |-> "None", segs |-> <<>>, bds |-> bds]
    ELSE LET l == alloc_loop(bds, 1, size, <<>>)
         IN  IF l.needed # 0
               THEN [ret |-> "panic", segs |-> <<>>, bds |-> l.bds]
               ELSE [ret |-> "Some",  segs |-> l.segs, bds |-> l.bds]

\* an alloc_space that checks the space only after the device loop
alloc_space_late(bds, size) ==
  LET l == alloc_loop(bds, 1, size, <<>>)
  IN  IF l.needed # 0
        THEN [ret |-> "None", segs |-> <<>>, bds |-> l.bds]
        ELSE [ret |-> "Some", segs |-> l.segs, bds |-> l.bds]

\* BlockDevMgr::alloc_space: "None", "Some" with the segments, or "panic"
\* when the assertion after the loop fails
alloc_space(bds, size) ==
  IF avail_space(bds) < size
    THEN [ret |-> "None", segs |-> <<>>, bds |-> bds]
    ELSE LET l == alloc_loop(bds, 1, size, <<>>)
         IN  IF l.needed # 0
               THEN [ret |-> "panic", segs |-> <<>>, bds |-> l.bds]
               ELSE [ret |-> "Some",  segs |-> l.segs, bds |-> l.bds]

\* ---------------------------------------------------- coalesce_blkdevsegs
SegBefore(a, b) ==
  a.device < b.device \/ (a.device = b.device /\ a.start <= b.start)

RECURSIVE InsertSeg(_, _)
InsertSeg(sorted, x) ==
  IF sorted = <<>> THEN <<x>>
  ELSE IF SegBefore(x, Head(sorted)) THEN <<x>> \o sorted
  ELSE <<Head(sorted)>> \o InsertSeg(Tail(sorted), x)

RECURSIVE SortSegs(_)
SortSegs(segs) ==
  IF segs = <<>> THEN <<>> ELSE InsertSeg(SortSegs(Tail(segs)), Head(segs))

\* one pass over a sorted list, merging each segment into its predecessor
\* when both are on one device and the predecessor ends where it starts
RECURSIVE MergeAdjacent(_, _)
MergeAdjacent(acc, rest) ==
  IF rest = <<>> THEN acc
  ELSE LET x == Head(rest)
       IN  IF acc # <<>> /\ acc[Len(acc)].device = x.device
                         /\ acc[Len(acc)].start + acc[Len(acc)].length = x.start
             THEN MergeAdjacent(
                    [acc EXCEPT ![Len(acc)].length = acc[Len(acc)].length + x.length],
                    Tail(rest))
             ELSE MergeAdjacent(Append(acc, x), Tail(rest))

\* a coalescing that joins the neighbours of one device across the gap
\* between them
coalesce_span(left, right) ==
  LET sorted == SortSegs(left \o right)
      Join[i \in 0..Len(sorted)] ==
        IF i = 0 THEN <<>>
        ELSE LET acc == Join[i - 1]
                 x   == sorted[i]
             IN  IF acc # <<>> /\ acc[Len(acc)].device = x.device
                   THEN [acc EXCEPT ![Len(acc)].length = x.start + x.length - acc[Len(acc)].start]
                   ELSE Append(acc, x)
  IN  Join[Len(sorted)]

coalesce_blkdevsegs(left, right) == MergeAdjacent(<<>>, SortSegs(left \o right))

\* ----------------------------------------------------------------- DataTier
\* a DataTier::alloc that keeps the granted segments and coalesces them in
\* once more
DataTier_alloc_twice(bds, segs, request) ==
  LET a == alloc_space(bds, request)
  IN  [ret      |-> CASE a.ret = "Some" -> "true"
                      [] a.ret = "None" -> "false"
                      [] OTHER          -> "panic",
       space    |-> a.ret,
       bds      |-> a.bds,
       granted  |-> a.segs,
       segments |-> IF a.ret = "Some"
                      THEN coalesce_blkdevsegs(segs \o a.segs, a.segs)
                      ELSE segs]

\* a DataTier::alloc that keeps only the segments granted last
DataTier_alloc_replace(bds, segs, request) ==
  LET a == alloc_space(bds, request)
  IN  [ret      |-> CASE a.ret = "Some" -> "true"
                      [] a.ret = "None" -> "false"
                      [] OTHER          -> "panic",
       space    |-> a.ret,
       bds      |-> a.bds,
       granted  |-> a.segs,
       segments |-> IF a.ret = "Some" THEN a.segs ELSE segs]

\* DataTier::alloc; space is what alloc_space returned
DataTier_alloc(bds, segs, request) ==
  LET a == alloc_space(bds, request)
  IN  [ret      |-> CASE a.ret = "Some" -> "true"
                      [] a.ret = "None" -> "false"
                      [] OTHER          -> "panic",
       space    |-> a.ret,
       bds      |-> a.bds,
       granted  |-> a.segs,
       segments |-> IF a.ret = "Some" THEN coalesce_blkdevsegs(segs, a.segs)
                                      ELSE segs]

\* DataTier::setup: one segment per triple, each with the live device of the
\* BlockDev that has the triple's UUID; NotFound when no BlockDev has it
uuid_to_devno(bds, uuid) ==
  IF \E i \in DOMAIN bds : bds[i].uuid = uuid
    THEN bds[CHOOSE i \in DOMAIN bds : bds[i].uuid = uuid].device
    ELSE NoDevice

\* a setup that gives every segment the device of the first BlockDev
DataTier_setup_first_device(bds, triples) ==
  IF \E j \in DOMAIN triples : uuid_to_devno(bds, triples[j][1]) = NoDevice
    THEN [ret |-> "NotFound", segments |-> <<>>]
    ELSE [ret |-> "Ok",
          segments |-> [j \in DOMAIN triples |->
                          [uuid   |-> triples[j][1],
                           device |-> bds[1].device,
                           start  |-> triples[j][2],
                           length |-> triples[j][3]]]]

\* a setup that succeeds on triples of unknown devices, giving them no device
DataTier_setup_lenient(bds, triples) ==
  [ret |-> "Ok",
   segments |-> [j \in DOMAIN triples |->
                   [uuid   |-> triples[j][1],
                    device |-> uuid_to_devno(bds, triples[j][1]),
                    start  |-> triples[j][2],
                    length |-> triples[j][3]]]]

DataTier_setup(bds, triples) ==
  IF \E j \in DOMAIN triples : uuid_to_devno(bds, triples[j][1]) = NoDevice
    THEN [ret |-> "NotFound", segments |-> <<>>]
    ELSE [ret |-> "Ok",
          segments |-> [j \in DOMAIN triples |->
                          [uuid   |-> triples[j][1],
                           device |-> uuid_to_devno(bds, triples[j][1]),
                           start  |-> triples[j][2],
                           length |-> triples[j][3]]]]

\* ------------------------------------------------------------- save_state
\* BlockDev::save_state: the error it returns, "Ok" when the write happened
BlockDev_save_state(bd, time, len, io_fail) ==
  IF time <= bd.time THEN "UsageError"
  ELSE IF len > bd.mda THEN "UsageError"
  ELSE IF bd.device = io_fail THEN "IOFailure"
  ELSE "Ok"

\* BlockDevMgr::save_state: each result is unwrapped, so the first error
\* aborts the process
RECURSIVE save_from(_, _, _, _, _)
save_from(bds, i, time, len, io_fail) ==
  IF i > Len(bds) THEN [ret |-> "Ok", cause |-> "Ok", bds |-> bds]
  ELSE LET r == BlockDev_save_state(bds[i], time, len, io_fail)
       IN  IF r # "Ok" THEN [ret |-> "panic", cause |-> r, bds |-> bds]
           ELSE save_from([bds EXCEPT ![i].time = time], i + 1, time, len, io_fail)

save_state(bds, time, len, io_fail) == save_from(bds, 1, time, len, io_fail)

\* ------------------------------------------------------------ destroy_all
\* BlockDevMgr::destroy_all: wipes the BlockDevs in order and returns at the
\* first wipe that fails; io_fail is the device whose wipe fails
RECURSIVE destroy_from(_, _, _, _, _)
destroy_from(bds, i, dsk, attempted, io_fail) ==
  IF i > Len(bds) THEN [ret |-> "Ok", disk |-> dsk, attempted |-> attempted]
  ELSE LET dev == bds[i].device
       IN  IF dev = io_fail
             THEN [ret |-> "Error", disk |-> dsk, attempted |-> attempted \cup {dev}]
             ELSE destroy_from(bds, i + 1, BDA_wipe(dsk, {dev}, {}),
                               attempted \cup {dev}, io_fail)

destroy_all(bds, dsk, io_fail) == destroy_from(bds, 1, dsk, {}, io_fail)

\* ==================================================================== state
MgrDevices == {block_devs[i].device : i \in DOMAIN block_devs}

\* the path lists handed to initialize and add.  resolve_devices collects
\* the devices of a list into a set, so each set of device nodes is listed
\* once, in ascending order; three more lists name device 1 twice and a
\* path that is no device
PathLists ==
  {SetToSeq(S) : S \in {T \in SUBSET Devs : Cardinality(T) \in 1..MaxPaths}}
  \cup {<<1, LinkPath>>, <<BadPath>>, <<1, BadPath>>}

\* what device I/O may do during the write phase over add_devs: nothing
\* fails, or BDA::initialize fails on one device, wipe fails on some of the
\* devices it is then attempted on, and the header of the failed write did
\* or did not reach the disk.  The loop returns at the first failure, so one
\* failing device describes every outcome.  A wipe is attempted on the
\* failing device and on those written before it, so the failing wipes are
\* drawn among these; a wipe that succeeds leaves the failing device blank
\* whether or not the header had reached it, so that is drawn when the wipe
\* of the failing device fails.
WriteFaults(add_devs) ==
  {NoFault}
  \cup UNION {UNION {{[info |-> NoDevice, write |-> add_devs[i],
                       wipe |-> w, torn |-> t] :
                        t \in IF add_devs[i] \in w THEN BOOLEAN ELSE {FALSE}} :
                     w \in SUBSET {add_devs[j] : j \in 1..i}} :
              i \in DOMAIN add_devs}

\* the failure of dev_info during the gather phase.  The filter returns at
\* the first error it meets, and every order of the devices is examined, so
\* a failure on the device examined first describes every outcome: a
\* failure on a later device changes nothing when a rejection comes first,
\* and otherwise returns what a failure on the first device returns.
InfoFaults(order) ==
  {NoFault} \cup {[NoFault EXCEPT !.info = order[i]] : i \in DOMAIN order \cap {1}}

\* the faults of one call: those of the gather phase and, when the filter
\* admits devices, those of the write phase over the admitted devices; f is
\* what the filter returns when no dev_info fails
Faults(f, order, mda_size) ==
  InfoFaults(order)
  \cup IF validate_mda_size(mda_size) /\ f.err = "Ok"
         THEN WriteFaults(f.add_devs) ELSE {}

\* the (device UUID, start, length) triples of a segment list
TriplesOf(segs) ==
  [j \in DOMAIN segs |-> <<segs[j].uuid, segs[j].start, segs[j].length>>]

\* triples handed to setup besides those of the tier's own segment list:
\* one short extent under each of the two device UUIDs drawn first, alone
\* and together in both orders, and one extent longer than any device
TripleLists ==
  {<<>>, <<<<1, 1, 1>>>>, <<<<2, 1, 1>>>>, <<<<1, 1, 4>>>>,
   <<<<1, 1, 1>>, <<2, 1, 1>>>>, <<<<2, 1, 1>>, <<1, 1, 1>>>>}

\* the sectors a triple covers
Extent(t) == t[2]..(t[2] + t[3] - 1)

\* the triples are pairwise disjoint extents, each allocated outside the
\* reserved metadata area in the allocator of the BlockDev with its UUID
AllocatedTriples(bds, triples) ==
  /\ \A j \in DOMAIN triples :
       \E i \in DOMAIN bds :
         /\ bds[i].uuid = triples[j][1]
         /\ Extent(triples[j]) \subseteq bds[i].used \ (0..(bds[i].mda - 1))
  /\ \A j, k \in DOMAIN triples :
       (j # k /\ triples[j][1] = triples[k][1])
         => Extent(triples[j]) \cap Extent(triples[k]) = {}

\* the number of device UUIDs a call draws when no device I/O fails
Draws(f, mda_size) ==
  IF validate_mda_size(mda_size) THEN Len(f.add_devs) ELSE 0

\* the disks before the first call: devices 1, 2 and 4 are blank, device 3
\* holds the data of another application or belongs to another pool
InitDisks ==
  {[d \in Devs |-> IF d = 3 THEN h ELSE Unowned] : h \in {Theirs, Ours(OtherPool, 0)}}

Init ==
  /\ disk \in InitDisks
  /\ phase = "none"
  /\ block_devs = <<>>
  /\ segments = <<>>
  /\ next_uuid = 0
  /\ origin = "none"
  /\ last = [op |-> "none"]

\* the devices that the paths of a list name
Named(paths) == {from_str(paths[i]) : i \in DOMAIN paths} \ {NoDevice}

\* the force flags of a call: the filter reads the flag only for a device
\* of another application, so it is drawn when the list names one
Forces(devices, dsk) ==
  IF \E d \in devices : dsk[d].own = "Theirs" THEN BOOLEAN ELSE {FALSE}

\* what a call of initialize or add returned, with the facts about its
\* arguments that the properties speak of: foreign, a candidate's header
\* names another pool of this engine; theirs_unforced, a candidate belongs
\* to another application and force is unset; dup, two paths of the list
\* name one device; unresolved, a path names no device.  The arguments
\* themselves are kept for a call that succeeded.
CallRecord(op, pool_uuid, force, paths, devices, dsk, r) ==
  [op |-> op, ret |-> r.err, stage |-> r.stage,
   dup |-> \E i, j \in DOMAIN paths :
             i # j /\ from_str(paths[i]) = from_str(paths[j])
                   /\ from_str(paths[i]) # NoDevice,
   unresolved |-> \E i \in DOMAIN paths : from_str(paths[i]) = NoDevice,
   foreign |-> \E d \in devices : dsk[d].own = "Ours" /\ dsk[d].pool # pool_uuid,
   theirs_unforced |-> ~force /\ \E d \in devices : dsk[d].own = "Theirs",
   pool    |-> IF r.err = "Ok" THEN pool_uuid ELSE "",
   force   |-> IF r.err = "Ok" THEN force ELSE FALSE,
   devices |-> IF r.err = "Ok" THEN devices ELSE {},
   written |-> r.written, wiped |-> r.wiped, unerased |-> r.unerased,
   new |-> {r.bds[i].device : i \in DOMAIN r.bds}]

\* what initialize may return on a set of devices: its results over every
\* order in which the set is iterated and every outcome of the device I/O,
\* for the calls that draw no more than the UUIDs left
Outcomes(pool_uuid, devices, mda_size, force, dsk, uuid) ==
  UNION {LET f == filter_devs(order, pool_uuid, force, dsk, NoFault)
         IN  IF uuid + Draws(f, mda_size) <= MaxUuid
               THEN {initialize(pool_uuid, order, mda_size, force, dsk, uuid, io) :
                       io \in Faults(f, order, mda_size)}
               ELSE {} :
         order \in Orders(devices)}

\* BlockDevMgr::initialize(pool_uuid, paths, mda_size, force)
BlockDevMgr_initialize ==
  /\ phase = "none"
  /\ \E paths \in PathLists, pool_uuid \in Pools, mda_size \in MdaSizes :
     \E force \in Forces(Named(paths), disk) :
       LET res == resolve_devices(paths)
       IN  IF ~res.ok
             THEN /\ last' = CallRecord("initialize", pool_uuid, force,
                                        paths, Named(paths), disk,
                                        Untouched("IO", "resolve", disk, next_uuid))
                  /\ UNCHANGED <<disk, phase, block_devs, segments, next_uuid, origin>>
             ELSE \E r \in Outcomes(pool_uuid, res.devices, mda_size, force,
                                     disk, next_uuid) :
                    /\ disk' = r.disk
                    /\ next_uuid' = r.next_uuid
                    /\ block_devs' = r.bds
                    /\ phase' = IF r.err = "Ok" THEN "mgr" ELSE "none"
                    /\ last' = CallRecord("initialize", pool_uuid, force,
                                          paths, res.devices, disk, r)
                    /\ UNCHANGED <<segments, origin>>

\* DataTier::add(pool_uuid, paths, force), which is BlockDevMgr::add on the
\* tier's manager
BlockDevMgr_add ==
  /\ phase = "tier"
  /\ \E paths \in PathLists, pool_uuid \in Pools :
     \E force \in Forces(Named(paths), disk) :
       LET res == resolve_devices(paths)
       IN  IF ~res.ok
             THEN /\ last' = CallRecord("add", pool_uuid, force,
                                        paths, Named(paths), disk,
                                        Untouched("IO", "resolve", disk, next_uuid))
                  /\ UNCHANGED <<disk, phase, block_devs, segments, next_uuid, origin>>
             ELSE \E r \in Outcomes(pool_uuid, res.devices, MIN_MDA_SECTORS, force,
                                     disk, next_uuid) :
                    /\ disk' = r.disk
                    /\ next_uuid' = r.next_uuid
                    /\ block_devs' = block_devs \o r.bds
                    /\ last' = CallRecord("add", pool_uuid, force,
                                          paths, res.devices, disk, r)
                    /\ UNCHANGED <<phase, segments, origin>>

\* DataTier::new(block_mgr)
DataTier_new_call ==
  /\ phase = "mgr"
  /\ phase' = "tier"
  /\ segments' = <<>>
  /\ origin' = "new"
  /\ last' = [op |-> "new"]
  /\ UNCHANGED <<disk, block_devs, next_uuid>>

\* DataTier::setup(block_mgr, segments), on a manager fresh from
\* initialize or on the manager of a tier made by new
DataTier_setup_call ==
  /\ phase = "mgr" \/ (phase = "tier" /\ origin = "new")
  /\ \E triples \in TripleLists \cup {TriplesOf(segments)} :
       LET r == DataTier_setup(block_devs, triples)
       IN  /\ last' = [op |-> "setup", ret |-> r.ret,
                       own |-> phase = "tier" /\ triples = TriplesOf(segments),
                       absent |-> \E j \in DOMAIN triples :
                                    \A i \in DOMAIN block_devs :
                                      block_devs[i].uuid # triples[j][1],
                       triples |-> IF r.ret = "Ok" THEN triples ELSE <<>>]
           /\ IF r.ret = "Ok"
                THEN /\ phase' = "tier"
                     /\ segments' = r.segments
                     /\ origin' = IF AllocatedTriples(block_devs, triples)
                                    THEN "setup" ELSE "setup_other"
                ELSE UNCHANGED <<phase, segments, origin>>
           /\ UNCHANGED <<disk, block_devs, next_uuid>>

\* DataTier::alloc(request)
DataTier_alloc_call ==
  /\ phase = "tier"
  /\ \E request \in 0..MaxRequest :
       LET r == DataTier_alloc(block_devs, segments, request)
       IN  /\ block_devs' = r.bds
           /\ segments' = r.segments
           /\ phase' = IF r.ret = "panic" THEN "panicked" ELSE phase
           /\ last' = [op |-> "alloc", request |-> request, ret |-> r.ret,
                       space |-> r.space, granted |-> r.granted,
                       avail |-> avail_space(block_devs)]
           /\ UNCHANGED <<disk, next_uuid, origin>>

\* DataTier::save_state, which is BlockDevMgr::save_state(time, metadata) on
\* the tier's manager
BlockDevMgr_save_state ==
  /\ phase = "tier"
  /\ \E time \in 1..MaxTime, len \in MetadataLens, io_fail \in MgrDevices \cup {NoDevice} :
       LET r == save_state(block_devs, time, len, io_fail)
       IN  /\ block_devs' = r.bds
           /\ phase' = IF r.ret = "panic" THEN "panicked" ELSE phase
           /\ last' = [op |-> "save_state", ret |-> r.ret, cause |-> r.cause]
           /\ UNCHANGED <<disk, segments, next_uuid, origin>>

\* DataTier::destroy, which is BlockDevMgr::destroy_all on the tier's manager
BlockDevMgr_destroy_all ==
  /\ phase = "tier"
  /\ \E io_fail \in MgrDevices \cup {NoDevice} :
       LET r == destroy_all(block_devs, disk, io_fail)
       IN  /\ disk' = r.disk
           /\ block_devs' = <<>>
           /\ segments' = <<>>
           /\ phase' = "destroyed"
           /\ last' = [op |-> "destroy_all", ret |-> r.ret,
                       devices |-> MgrDevices, attempted |-> r.attempted]
           /\ UNCHANGED <<next_uuid, origin>>

\* a segment as the (device, start, length) it covers
SegKey(seg) == <<seg.device, seg.start, seg.length>>

\* two segment lists are the same multiset of (device, start, length)
SameMultiset(a, b) ==
  /\ Len(a) = Len(b)
  /\ \A j \in DOMAIN a :
       Cardinality({k \in DOMAIN a : SegKey(a[k]) = SegKey(a[j])})
         = Cardinality({k \in DOMAIN b : SegKey(b[k]) = SegKey(a[j])})

\* the life of a manager and its tier: made, grown, allocated from, destroyed
Next ==
  \/ BlockDevMgr_initialize
  \/ BlockDevMgr_add
  \/ DataTier_new_call
  \/ DataTier_alloc_call
  \/ BlockDevMgr_destroy_all

Spec == Init /\ [][Next]_vars

\* the same with the saving of the pool's metadata to the devices
NextSave ==
  \/ Next
  \/ BlockDevMgr_save_state

SpecSave == Init /\ [][NextSave]_vars

\* the making and growth of a tier with DataTier::setup: the calls that
\* make or change the manager's BlockDevs and the tier's segment list
NextSetup ==
  \/ BlockDevMgr_initialize
  \/ BlockDevMgr_add
  \/ DataTier_new_call
  \/ DataTier_setup_call
  \/ DataTier_alloc_call

SpecSetup == Init /\ [][NextSetup]_vars

\* ------------------------------------------------- coalesce_blkdevsegs alone
\* the segments handed to coalesce_blkdevsegs: extents of two devices of
\* MaxSector sectors, each tagged with the UUID of its device
InputSegs ==
  {seg \in [uuid : {1, 2}, device : {1, 2},
            start : 0..(MaxSector - 1), length : 1..MaxSector] :
     /\ seg.uuid = seg.device
     /\ seg.start + seg.length <= MaxSector}

\* the (device, sector) addresses a segment list covers
Covered(segs) ==
  UNION {{<<segs[j].device, x>> :
            x \in segs[j].start..(segs[j].start + segs[j].length - 1)} :
         j \in DOMAIN segs}

\* the sets of at most n segments that do not overlap
RECURSIVE InputFamilies(_)
InputFamilies(n) ==
  IF n = 0 THEN {{}}
  ELSE LET smaller == InputFamilies(n - 1)
       IN  smaller
           \cup UNION {{S \cup {a} :
                          a \in {b \in InputSegs :
                                   \A c \in S : Covered(<<b>>) \cap Covered(<<c>>) = {}}} :
                        S \in smaller}

\* existing and additional: the segments of a family in any order, split
\* at any place
InitCoalesce ==
  /\ disk = [d \in Devs |-> Unowned]
  /\ phase = "coalesce"
  /\ block_devs = <<>>
  /\ next_uuid = 0
  /\ origin = "none"
  /\ \E S \in InputFamilies(MaxSegs) : \E o \in Orders(S) : \E k \in 0..Len(o) :
       /\ segments = SubSeq(o, 1, k)
       /\ last = [op |-> "inputs", additional |-> SubSeq(o, k + 1, Len(o))]

\* coalesce_blkdevsegs(existing, additional)
Coalesce_call ==
  /\ phase = "coalesce"
  /\ last.op = "inputs"
  /\ segments' = coalesce_blkdevsegs(segments, last.additional)
  /\ last' = [op |-> "coalesce", existing |-> segments,
              additional |-> last.additional]
  /\ UNCHANGED <<disk, phase, block_devs, next_uuid, origin>>

\* coalesce_blkdevsegs(result, []) on the result of the first call
Coalesce_again ==
  /\ phase = "coalesce"
  /\ last.op = "coalesce"
  /\ segments' = coalesce_blkdevsegs(segments, <<>>)
  /\ last' = [op |-> "again", existing |-> last.existing,
              additional |-> last.additional, once |-> segments]
  /\ UNCHANGED <<disk, phase, block_devs, next_uuid, origin>>

NextCoalesce ==
  \/ Coalesce_call
  \/ Coalesce_again

SpecCoalesce == InitCoalesce /\ [][NextCoalesce]_vars

\* =============================================================== properties
\* C1: alloc_space(request) returns no allocation exactly when avail_space()
\* was below request at the call; otherwise it returns segments whose
\* lengths sum to request, and the assertion after the device loop holds.
C1_AllocSpaceContract ==
  last.op = "alloc" =>
    /\ (last.space = "None") <=> (last.avail < last.request)
    /\ last.space # "None" =>
         /\ last.space = "Some"
         /\ SumLen(last.granted) = last.request

\* a grant that takes space from two devices
C1_Witness ==
  /\ last.op = "alloc"
  /\ last.space = "Some"
  /\ \E j, k \in DOMAIN last.granted : last.granted[j].device # last.granted[k].device

\* C2: a call of initialize or add that returns from validation (bad
\* metadata-area size, a device below the minimum size, a foreign-owned
\* device without force, a device of another pool) returns InvalidInput and
\* has written and wiped nothing: every header on disk is as it was.
C2_ValidationFailureWritesNothing ==
  [][(last'.op \in {"initialize", "add"}
        /\ last'.stage \in {"mda", "small", "theirs", "foreign"})
       => /\ last'.ret = "Invalid"
          /\ last'.written = {} /\ last'.wiped = {}
          /\ disk' = disk
          /\ block_devs' = block_devs]_vars

\* a batch rejected for its small device on a manager that has devices
C2_Witness ==
  /\ last.op = "add"
  /\ last.stage = "small"
  /\ block_devs # <<>>

\* C3: when BDA::initialize fails on an admitted device, a wipe is attempted
\* on it and on every device written earlier in the batch, the call returns
\* an error and no BlockDev, add leaves block_devs as it was, and every
\* device of the batch that still holds the metadata written by this call
\* is in the list of devices whose wipe failed.
C3_WriteFailureCleanup ==
  [][(last'.op \in {"initialize", "add"} /\ last'.stage = "write")
       => /\ last'.ret = "Error"
          /\ last'.new = {}
          /\ last'.wiped = last'.written
          /\ block_devs' = block_devs
          /\ \A d \in last'.written :
               (disk'[d].own = "Ours" /\ disk'[d].uuid > next_uuid)
                 => d \in last'.unerased]_vars

\* the second write of a batch failed and a wipe failed as well
C3_Witness ==
  /\ last.op \in {"initialize", "add"}
  /\ last.stage = "write"
  /\ Cardinality(last.written) >= 2
  /\ last.unerased # {}
  /\ \E d \in last.written \ last.unerased : disk[d] = Unowned

C5_FailedAllocChangesNothing ==
  [][(last'.op = "alloc" /\ last'.ret = "false")
       => /\ segments' = segments
          /\ block_devs' = block_devs]_vars

\* a request refused although some space is free on the devices
C5_Witness ==
  /\ last.op = "alloc"
  /\ last.ret = "false"
  /\ last.avail > 0
  /\ segments # <<>>

\* C6: destroy_all attempts the wipe of every BlockDev of the manager, also
\* when the wipe of one of them fails.
C6_DestroyAttemptsAll ==
  last.op = "destroy_all" => last.attempted = last.devices

\* C7: save_state returns its failures (a timestamp that is not newer, a
\* payload too large, a failed write) to the caller as UsageError or
\* IOFailure; it never aborts.
C7_SaveStateReturnsErrors ==
  last.op = "save_state" =>
    /\ last.ret # "panic"
    /\ last.ret = last.cause

\* C8 as stated: in every state of a tier, made by new or by setup from any
\* triples that setup accepts, the segment lengths sum to at most the space
\* of the manager's devices that is not reserved for metadata.
C8_SegmentsWithinDevices ==
  phase = "tier" => SumLen(segments) <= usable_from(block_devs, 1)

\* C8 amended: the bound holds in every state of a tier made by new, or by
\* setup from triples that are pairwise disjoint extents allocated in the
\* manager's allocators, after any sequence of alloc and add.
C8_GrantedSegmentsWithinDevices ==
  (phase = "tier" /\ origin \in {"new", "setup"})
    => SumLen(segments) <= usable_from(block_devs, 1)

\* a tier set up from its allocated extents that then grew by an alloc
C8_Witness ==
  /\ phase = "tier"
  /\ origin = "setup"
  /\ last.op = "alloc"
  /\ last.ret = "true"
  /\ SumLen(segments) > SumLen(last.granted)
  /\ SumLen(last.granted) > 0

\* C9: no two BlockDevs of the manager have the same device, and no two
\* have the same UUID.
C9_DevicesAndUuidsUnique ==
  \A i, j \in DOMAIN block_devs :
    i # j => /\ block_devs[i].device # block_devs[j].device
             /\ block_devs[i].uuid # block_devs[j].uuid

\* an add that succeeded on a list naming a device of the manager and a new one
C9_Witness ==
  /\ last.op = "add"
  /\ last.ret = "Ok"
  /\ last.new # {}
  /\ \E i \in DOMAIN block_devs :
       block_devs[i].device \in last.devices \ last.new

\* C10: a call of initialize or add that succeeds returns exactly one
\* BlockDev for each candidate that was Unowned and, with force set, for
\* each that belonged to another application; a candidate already of this
\* pool yields no BlockDev and its header is not rewritten; a batch with a
\* device of another application and force unset does not succeed.
C10_AdmittedDevices ==
  [][(last'.op \in {"initialize", "add"})
       => /\ last'.ret = "Ok" =>
               /\ last'.new = {d \in last'.devices :
                                 \/ disk[d].own = "Unowned"
                                 \/ last'.force /\ disk[d].own = "Theirs"}
               /\ Len(block_devs') = Len(block_devs) + Cardinality(last'.new)
               /\ \A d \in last'.devices :
                    disk[d].own = "Ours" =>
                      /\ disk[d].pool = last'.pool
                      /\ disk'[d] = disk[d]
                      /\ d \notin last'.new
          /\ last'.theirs_unforced => last'.ret # "Ok"]_vars

\* a forced call that admitted the device of another application and
\* skipped a device already of this pool
C10_Witness ==
  /\ last.op = "add"
  /\ last.ret = "Ok"
  /\ last.force
  /\ 3 \in last.new
  /\ last.devices \ last.new # {}

\* C11: for a tier made by new and grown by alloc and add, setup on the
\* tier's manager and the (device UUID, start, length) triples of its
\* segment list succeeds, and the tier it yields has the same multiset of
\* (device, start, length) segments.
C11_SetupRoundTrip ==
  [][(last'.op = "setup" /\ last'.own)
       => /\ last'.ret = "Ok"
          /\ phase' = "tier"
          /\ SameMultiset(segments', segments)]_vars

\* a round trip of a tier whose segments lie on two devices
C11_Witness ==
  /\ last.op = "setup"
  /\ last.own
  /\ last.ret = "Ok"
  /\ \E j, k \in DOMAIN segments : segments[j].device # segments[k].device

\* C12: setup fails with NotFound exactly when a triple names a device
\* UUID that no BlockDev of the manager has; otherwise it succeeds with one
\* segment per triple, in the order of the triples, each with the triple's
\* UUID, start and length and the device of the BlockDev with that UUID.
C12_SetupNotFoundIffAbsent ==
  last.op = "setup" =>
    /\ (last.ret = "NotFound") <=> last.absent
    /\ ~last.absent =>
         /\ last.ret = "Ok"
         /\ Len(segments) = Len(last.triples)
         /\ \A j \in DOMAIN segments :
              /\ segments[j].uuid = last.triples[j][1]
              /\ segments[j].start = last.triples[j][2]
              /\ segments[j].length = last.triples[j][3]
              /\ \E i \in DOMAIN block_devs :
                   /\ block_devs[i].uuid = segments[j].uuid
                   /\ block_devs[i].device = segments[j].device

\* a setup from two triples, the device drawn second named first
C12_Witness ==
  /\ last.op = "setup"
  /\ last.ret = "Ok"
  /\ Len(last.triples) = 2
  /\ last.triples[1][1] > last.triples[2][1]
  /\ segments[1].device # segments[2].device

\* C13: for segment lists existing and additional that do not overlap,
\* coalescing the result of coalesce(existing, additional) with the empty
\* list gives that result again, the result covers exactly the addresses
\* the two inputs cover, and its lengths sum to the sum of theirs.
C13_CoalesceIdempotentPreserving ==
  last.op = "again" =>
    /\ segments = last.once
    /\ Covered(last.once) = Covered(last.existing) \cup Covered(last.additional)
    /\ SumLen(last.once) = SumLen(last.existing) + SumLen(last.additional)

\* three segments given out of order, two of them adjacent on one device
\* and merged, with a segment in each input
C13_Witness ==
  /\ last.op = "again"
  /\ last.existing # <<>>
  /\ last.additional # <<>>
  /\ Len(last.existing) + Len(last.additional) = 3
  /\ Len(last.once) = 2
  /\ ~SegBefore(last.existing[1], last.additional[Len(last.additional)])

\* C14: a DataTier::alloc, granted or refused, leaves current_capacity() and
\* the number of devices as they were; a DataTier::add that succeeds and
\* admits devices raises current_capacity() by the sizes of the admitted
\* devices and the number of devices by their number, and leaves the tier's
\* segment list as it was.
C14_CapacityFraming ==
  [][/\ last'.op = "alloc"
          => /\ current_capacity(block_devs') = current_capacity(block_devs)
             /\ Len(block_devs') = Len(block_devs)
     /\ (last'.op = "add" /\ last'.ret = "Ok" /\ last'.new # {})
          => /\ current_capacity(block_devs')
                  = current_capacity(block_devs) + TotalSize(last'.new)
             /\ Len(block_devs') = Len(block_devs) + Cardinality(last'.new)
             /\ segments' = segments]_vars

\* an add that admitted a device to a tier that has segments
C14_Witness ==
  /\ last.op = "add"
  /\ last.ret = "Ok"
  /\ last.new # {}
  /\ segments # <<>>
  /\ Len(block_devs) = 2

\* C15: a call of initialize or add returns from resolve_devices with an
\* I/O error, changing nothing, exactly when a path of its list names no
\* device; an initialize that succeeds, also on a list in which two paths
\* name one device, returns one BlockDev per device named and not already
\* of the pool, and has written metadata to each of them once.
C15_ResolveOncePerDevice ==
  [][last'.op \in {"initialize", "add"}
       => /\ last'.unresolved <=> last'.stage = "resolve"
          /\ last'.stage = "resolve"
               => /\ last'.ret = "IO"
                  /\ disk' = disk
                  /\ block_devs' = block_devs
          /\ (last'.op = "initialize" /\ last'.ret = "Ok")
               => /\ {block_devs'[i].device : i \in DOMAIN block_devs'}
                       = {d \in last'.devices : disk[d].own # "Ours"}
                  /\ Len(block_devs') = Cardinality(last'.new)
                  /\ last'.written = last'.new
                  /\ next_uuid' = next_uuid + Cardinality(last'.new)]_vars

\* an initialize on two paths of one device, which made one BlockDev
C15_Witness ==
  /\ last.op = "initialize"
  /\ last.dup
  /\ last.ret = "Ok"
  /\ Len(block_devs) = 1
  /\ next_uuid = 1

\* C16: a tier made by new has no segments, and no alloc or add on it
\* lowers the number of its segments or their total length, or takes an
\* address out of the extents it covers.
C16_SegmentsNeverShrink ==
  [][/\ last'.op = "new" => segments' = <<>>
     /\ (phase = "tier" /\ phase' = "tier")
          => /\ Len(segments') >= Len(segments)
             /\ SumLen(segments') >= SumLen(segments)
             /\ Covered(segments) \subseteq Covered(segments')]_vars

\* a grant merged into the segment the tier had: one segment still, longer
C16_Witness ==
  /\ last.op = "alloc"
  /\ last.ret = "true"
  /\ last.granted # <<>>
  /\ Len(segments) = 1
  /\ SumLen(segments) > SumLen(last.granted)

\* C17: in every state of a tier made by new and grown by alloc (of any
\* amount, nothing included) and add, every segment has a length above
\* zero, names a BlockDev of the manager by device and UUID, starts at or
\* after the end of that device's metadata area and ends within the
\* device, and no two segments of one device overlap.
C17_SegmentsWellFormed ==
  (phase = "tier" /\ origin = "new") =>
    /\ \A j \in DOMAIN segments :
         /\ segments[j].length > 0
         /\ \E i \in DOMAIN block_devs :
              /\ block_devs[i].device = segments[j].device
              /\ block_devs[i].uuid = segments[j].uuid
              /\ segments[j].start >= block_devs[i].mda
              /\ segments[j].start + segments[j].length <= block_devs[i].size
    /\ \A j, k \in DOMAIN segments :
         j # k => Covered(<<segments[j]>>) \cap Covered(<<segments[k]>>) = {}

\* a tier with segments on two devices after an alloc of nothing
C17_Witness ==
  /\ phase = "tier"
  /\ origin = "new"
  /\ last.op = "alloc"
  /\ last.request = 0
  /\ last.ret = "true"
  /\ Len(segments) = 2

\* C18: after an alloc_space that granted space, every device that stands
\* in the manager's list before a device that gave space to the grant has
\* no free space left, so a device appended by add is used only when the
\* devices before it are full; add keeps the BlockDevs it found, in their
\* order, at the head of the list.
C18_FillInManagerOrder ==
  [][/\ (last'.op = "alloc" /\ last'.space = "Some")
          => \A j \in DOMAIN block_devs' :
               (\E g \in DOMAIN last'.granted :
                   last'.granted[g].device = block_devs'[j].device)
                 => \A i \in 1..(j - 1) : available(block_devs'[i]) = 0
     /\ last'.op = "add"
          => /\ Len(block_devs') >= Len(block_devs)
             /\ SubSeq(block_devs', 1, Len(block_devs)) = block_devs]_vars

\* a grant that filled the first device of the list and went on to the
\* second
C18_Witness ==
  /\ last.op = "alloc"
  /\ last.space = "Some"
  /\ Len(block_devs) = 2
  /\ \E g \in DOMAIN last.granted : last.granted[g].device = block_devs[2].device
  /\ \E g \in DOMAIN last.granted : last.granted[g].device = block_devs[1].device
  /\ available(block_devs[2]) > 0

\* C19: in every state of a manager and of the tier made on it by new,
\* avail_space() and the lengths of the segments granted so far add up to
\* the sizes of the devices less their metadata areas, and on each device
\* the metadata area and the allocated sectors fit in the device; an
\* alloc_space(size) that succeeds lowers avail_space() by size, one that
\* fails leaves it as it was, and each device made by initialize or add
\* raises it by the device's size less its metadata area.
C19_SpaceAccounting ==
  /\ (phase = "mgr" \/ (phase = "tier" /\ origin = "new"))
       => /\ avail_space(block_devs) + SumLen(segments) = usable_from(block_devs, 1)
          /\ \A i \in DOMAIN block_devs :
               /\ 0..(block_devs[i].mda - 1) \subseteq block_devs[i].used
               /\ block_devs[i].used \subseteq 0..(block_devs[i].size - 1)
  /\ (last.op = "alloc" /\ phase = "tier")
       => avail_space(block_devs)
            = last.avail - (IF last.space = "Some" THEN last.request ELSE 0)

\* a manager of two devices, one of them partly allocated, after a refused
\* request
C19_Witness ==
  /\ phase = "tier"
  /\ origin = "new"
  /\ Len(block_devs) = 2
  /\ last.op = "alloc"
  /\ last.space = "None"
  /\ SumLen(segments) > 0
  /\ avail_space(block_devs) > 0

\* C20: after an add that returned success, every device its paths name is
\* a BlockDev of the manager, also when an earlier call left its metadata
\* on a device whose write and wipe both failed.
C20_SuccessfulAddMembers ==
  (last.op = "add" /\ last.ret = "Ok") => last.devices \subseteq MgrDevices

====
